---- MODULE Spec2Model ----
(***************************************************************************)
(* PPG-GSR-API (src/main.py): the emotion classifiers, the GSR analyser,   *)
(* the fusion rule, the time parser and the analyze_sensors handler.       *)
(*                                                                         *)
(* Numbers.  Python floats are modelled by exact values: a number is a     *)
(* record [n, d, r] standing for n/d (r = FALSE) or sqrt(n/d) (r = TRUE),  *)
(* with d > 0.  Every comparison the code makes is against a threshold, so *)
(* exact comparison decides as the float comparison does on the inputs     *)
(* enumerated here (none lies within rounding distance of a threshold      *)
(* without being equal to it).                                             *)
(***************************************************************************)
EXTENDS Integers, Sequences, FiniteSets, TLC

VARIABLES
    input,             \* the request: uploaded table and chunks_json
    pc,                \* position of analyze_sensors
    df,                \* the data frame after lines 78-93 (rows keep their index label)
    chunks_data,       \* json.loads(chunks_json)
    chunk,             \* the loop variable of line 101
    results,           \* the list built by the loop of lines 101-131
    ppg_rr_intervals,  \* local of the last loop iteration
    ppg_emotion,       \* local of the last loop iteration
    gsr_emotion,       \* local of the last loop iteration
    scr,               \* (scr_amplitude, scr_frequency) of the last iteration
    response,          \* what the handler returned or raised
    call,              \* a direct call of one of the pure functions
    ret                \* its return value

vars == <<input, pc, df, chunks_data, chunk, results, ppg_rr_intervals, ppg_emotion,
          gsr_emotion, scr, response, call, ret>>

handlerVars == <<input, pc, df, chunks_data, chunk, results, ppg_rr_intervals,
                 ppg_emotion, gsr_emotion, scr, response>>

-----------------------------------------------------------------------------
(* Exact numbers *)

Rat(n, d) == [n |-> n, d |-> d, r |-> FALSE]

Num(k) == Rat(k, 1)

\* np.sqrt of a non-negative rational
Sqrt(q) == [n |-> q.n, d |-> q.d, r |-> TRUE]

IsNeg(x) == ~x.r /\ x.n < 0

SqNum(x) == IF x.r THEN x.n ELSE x.n * x.n

SqDen(x) == IF x.r THEN x.d ELSE x.d * x.d

\* x < y
LT(x, y) ==
    IF ~x.r /\ ~y.r THEN x.n * y.d < y.n * x.d
    ELSE IF IsNeg(x) THEN TRUE
    ELSE IF IsNeg(y) THEN FALSE
    ELSE SqNum(x) * SqDen(y) < SqNum(y) * SqDen(x)

GT(x, y) == LT(y, x)

LE(x, y) == ~LT(y, x)

-----------------------------------------------------------------------------
(* Emotion labels *)

Happy == "Happy"
Sad == "Sad"
Angry == "Angry"
Neutral == "Neutral"
NeutralCalm == "Neutral/Calm"
HappyAngry == "Happy/Angry"

Labels == {Happy, Sad, Angry, Neutral, NeutralCalm, HappyAngry}

-----------------------------------------------------------------------------
(* The classifiers and the fusion rule *)

\* a faulty variant: the Happy rule with inclusive bounds
classify_ppg_inclusive_happy(ppg_sdnn, ppg_rmssd) ==
    IF LE(Num(100), ppg_sdnn) /\ LE(Num(50), ppg_rmssd) THEN Happy
    ELSE IF LT(ppg_sdnn, Num(50)) /\ LT(ppg_rmssd, Num(30)) THEN Sad
    ELSE IF GT(ppg_sdnn, Num(100)) /\ LT(ppg_rmssd, Num(30)) THEN Angry
    ELSE IF /\ LE(Num(50), ppg_sdnn) /\ LE(ppg_sdnn, Num(100))
            /\ LE(Num(30), ppg_rmssd) /\ LE(ppg_rmssd, Num(50)) THEN Neutral
    ELSE NeutralCalm

\* a faulty variant: the Neutral rule with strict bounds
classify_ppg_strict_neutral(ppg_sdnn, ppg_rmssd) ==
    IF GT(ppg_sdnn, Num(100)) /\ GT(ppg_rmssd, Num(50)) THEN Happy
    ELSE IF LT(ppg_sdnn, Num(50)) /\ LT(ppg_rmssd, Num(30)) THEN Sad
    ELSE IF GT(ppg_sdnn, Num(100)) /\ LT(ppg_rmssd, Num(30)) THEN Angry
    ELSE IF /\ LT(Num(50), ppg_sdnn) /\ LT(ppg_sdnn, Num(100))
            /\ LT(Num(30), ppg_rmssd) /\ LT(ppg_rmssd, Num(50)) THEN Neutral
    ELSE NeutralCalm

classify_ppg_emotion(ppg_sdnn, ppg_rmssd) ==
    IF GT(ppg_sdnn, Num(100)) /\ GT(ppg_rmssd, Num(50)) THEN Happy
    ELSE IF LT(ppg_sdnn, Num(50)) /\ LT(ppg_rmssd, Num(30)) THEN Sad
    ELSE IF GT(ppg_sdnn, Num(100)) /\ LT(ppg_rmssd, Num(30)) THEN Angry
    ELSE IF /\ LE(Num(50), ppg_sdnn) /\ LE(ppg_sdnn, Num(100))
            /\ LE(Num(30), ppg_rmssd) /\ LE(ppg_rmssd, Num(50)) THEN Neutral
    ELSE NeutralCalm

\* a faulty variant: the Sad rule with inclusive bounds
classify_gsr_inclusive_sad(scr_amplitude, scr_frequency) ==
    IF GT(scr_amplitude, Rat(5, 10)) /\ GT(scr_frequency, Rat(5, 100)) THEN HappyAngry
    ELSE IF LE(scr_amplitude, Rat(3, 10)) /\ LE(scr_frequency, Rat(2, 100)) THEN Sad
    ELSE IF /\ LE(Rat(3, 10), scr_amplitude) /\ LE(scr_amplitude, Rat(5, 10))
            /\ LE(Rat(2, 100), scr_frequency) /\ LE(scr_frequency, Rat(5, 100))
         THEN Neutral
    ELSE NeutralCalm

classify_gsr_emotion(scr_amplitude, scr_frequency) ==
    IF GT(scr_amplitude, Rat(5, 10)) /\ GT(scr_frequency, Rat(5, 100)) THEN HappyAngry
    ELSE IF LT(scr_amplitude, Rat(3, 10)) /\ LT(scr_frequency, Rat(2, 100)) THEN Sad
    ELSE IF /\ LE(Rat(3, 10), scr_amplitude) /\ LE(scr_amplitude, Rat(5, 10))
            /\ LE(Rat(2, 100), scr_frequency) /\ LE(scr_frequency, Rat(5, 100))
         THEN Neutral
    ELSE NeutralCalm

\* a faulty variant: the GSR label also replaces the default PPG label
combine_emotions_over_default(ppg, gsr) ==
    IF gsr = HappyAngry \/ ppg = NeutralCalm THEN gsr ELSE ppg

combine_emotions(ppg, gsr) ==
    IF gsr = HappyAngry THEN gsr ELSE ppg

-----------------------------------------------------------------------------
(* The time parser.  A str is the sequence of its characters; a table cell  *)
(* is [t |-> "str" | "int" | "float", s |-> characters].                    *)

Str(chars) == [t |-> "str", s |-> chars]

DigitChars == <<"0", "1", "2", "3", "4", "5", "6", "7", "8", "9">>

IsDigit(c) == \E k \in 1..Len(DigitChars) : DigitChars[k] = c

DigitVal(c) == (CHOOSE k \in 1..Len(DigitChars) : DigitChars[k] = c) - 1

\* str.split(sep): the parts between the occurrences of sep
RECURSIVE Split(_, _)
Split(s, sep) ==
    IF \A k \in 1..Len(s) : s[k] # sep THEN <<s>>
    ELSE LET k == CHOOSE j \in 1..Len(s) :
                      s[j] = sep /\ \A m \in 1..(j - 1) : s[m] # sep
         IN  <<SubSeq(s, 1, k - 1)>> \o Split(SubSeq(s, k + 1, Len(s)), sep)

\* str.strip() as int() applies it
RECURSIVE Strip(_)
Strip(s) ==
    IF s = <<>> THEN s
    ELSE IF s[1] = " " THEN Strip(Tail(s))
    ELSE IF s[Len(s)] = " " THEN Strip(SubSeq(s, 1, Len(s) - 1))
    ELSE s

\* the digits of an int() literal: digits, with single underscores between them
IsIntBody(b) ==
    /\ Len(b) > 0
    /\ IsDigit(b[1])
    /\ IsDigit(b[Len(b)])
    /\ \A k \in 1..Len(b) : IsDigit(b[k]) \/ b[k] = "_"
    /\ \A k \in 1..(Len(b) - 1) : ~(b[k] = "_" /\ b[k + 1] = "_")

RECURSIVE IntBodyVal(_, _)
IntBodyVal(b, acc) ==
    IF b = <<>> THEN acc
    ELSE IF b[1] = "_" THEN IntBodyVal(Tail(b), acc)
    ELSE IntBodyVal(Tail(b), acc * 10 + DigitVal(b[1]))

\* int(s): [ok |-> FALSE] stands for ValueError
int(s) ==
    LET t == Strip(s)
        signed == t # <<>> /\ t[1] \in {"-", "+"}
        body == IF signed THEN Tail(t) ELSE t
    IN  IF ~IsIntBody(body) THEN [ok |-> FALSE, val |-> 0]
        ELSE [ok |-> TRUE,
              val |-> IF signed /\ t[1] = "-" THEN 0 - IntBodyVal(body, 0)
                      ELSE IntBodyVal(body, 0)]

\* what a call gives: a number of seconds, None, or an exception that leaves it
None == [none |-> TRUE, secs |-> 0, exc |-> ""]

Seconds(k) == [none |-> FALSE, secs |-> k, exc |-> ""]

Raised(e) == [none |-> FALSE, secs |-> 0, exc |-> e]

\* a faulty variant: the seconds are what precedes the first '.', if there is any
convert_body_first_part(time_str) ==
    IF time_str.t # "str" THEN Raised("AttributeError")
    ELSE LET parts == Split(time_str.s, ":")
         IN  IF Len(parts) # 2 THEN Raised("ValueError")
             ELSE LET minutes == int(parts[1])
                      seconds == int(Split(parts[2], ".")[1])
                  IN  IF ~minutes.ok \/ ~seconds.ok THEN Raised("ValueError")
                      ELSE Seconds(minutes.val * 60 + seconds.val)

\* lines 66-69, the body of the try
convert_body(time_str) ==
    IF time_str.t # "str" THEN Raised("AttributeError")   \* no split on int, float
    ELSE LET parts == Split(time_str.s, ":")
         IN  IF Len(parts) # 2 THEN Raised("ValueError")  \* unpacking
             ELSE LET ss == Split(parts[2], ".")
                  IN  IF Len(ss) # 2 THEN Raised("ValueError")
                      ELSE LET minutes == int(parts[1])
                               seconds == int(ss[1])
                           IN  IF ~minutes.ok \/ ~seconds.ok THEN Raised("ValueError")
                               ELSE Seconds(minutes.val * 60 + seconds.val)

\* line 70: except (ValueError, AttributeError)
CaughtByConvert == {"ValueError", "AttributeError"}

convert_time_to_seconds(time_str) ==
    LET r == convert_body(time_str)
    IN  IF r.exc \in CaughtByConvert THEN None ELSE r

-----------------------------------------------------------------------------
(* Sequences of readings.  A pandas Series is a sequence of [idx, v]: v is  *)
(* an integer reading or NaN, idx the row's index label (its 0-based row    *)
(* number in the uploaded file).                                            *)

NaN == -1000

RECURSIVE SumSeq(_)
SumSeq(s) == IF s = <<>> THEN 0 ELSE s[1] + SumSeq(Tail(s))

\* the elements of a set of integers in increasing order
RECURSIVE SortedSeq(_)
SortedSeq(S) ==
    IF S = {} THEN <<>>
    ELSE LET m == CHOOSE x \in S : \A y \in S : x <= y
         IN  <<m>> \o SortedSeq(S \ {m})

Values(series) == [k \in 1..Len(series) |-> series[k].v]

\* Series.dropna()
dropna(series) == SelectSeq(series, LAMBDA e : e.v # NaN)

\* Series.isnull().all()
all_null(series) == \A k \in 1..Len(series) : series[k].v = NaN

\* np.diff: a difference with a NaN operand is NaN
np_diff(x) ==
    [k \in 1..(Len(x) - 1) |->
        IF x[k] = NaN \/ x[k + 1] = NaN THEN NaN ELSE x[k + 1] - x[k]]

\* np.where(d > 0)[0]: the 0-based positions of the positive entries (NaN > 0 is False)
where_positive(d) == SortedSeq({k - 1 : k \in {j \in 1..Len(d) : d[j] # NaN /\ d[j] > 0}})

sampling_rate == 100

\* scipy _local_maxima_1d: the midpoint of every plateau that is strictly
\* higher than both neighbours (0-based positions; the two ends are never peaks)
local_maxima(x) ==
    LET n == Len(x)
        at(p) == x[p + 1]
    IN  {(l + r) \div 2 : <<l, r>> \in
            {e \in (1..(n - 2)) \X (1..(n - 2)) :
                /\ e[1] <= e[2]
                /\ \A p \in e[1]..e[2] : at(p) = at(e[1])
                /\ at(e[1] - 1) < at(e[1])
                /\ at(e[2] + 1) < at(e[1])}}

\* scipy _select_by_peak_distance: peaks are taken from the highest down
\* (the later one first among equals) and each one taken removes the peaks
\* closer than distance to it
RECURSIVE select_by_peak_distance(_, _, _, _)
select_by_peak_distance(cands, kept, x, distance) ==
    IF cands = {} THEN kept
    ELSE LET j == CHOOSE p \in cands : \A q \in cands :
                      \/ x[q + 1] < x[p + 1]
                      \/ (x[q + 1] = x[p + 1] /\ q <= p)
         IN  select_by_peak_distance(
                 {q \in cands : q - j >= distance \/ j - q >= distance},
                 kept \union {j}, x, distance)

\* scipy.signal.find_peaks(x, height=h, distance=distance)
find_peaks(x, height, distance) ==
    LET high == {p \in local_maxima(x) : LE(height, Num(x[p + 1]))}
    IN  SortedSeq(select_by_peak_distance(high, {}, x, distance))

\* Series[array of integers] on an integer index: a lookup by LABEL, not by
\* position.  [err |-> TRUE] stands for KeyError (a label that is not in the
\* index; pandas before 1.0 gave NaN for it instead).
getitem_by_label(series, keys) ==
    LET labels == {series[k].idx : k \in 1..Len(series)}
        at(l) == (CHOOSE k \in 1..Len(series) : series[k].idx = l)
    IN  IF \E m \in 1..Len(keys) : keys[m] \notin labels
        THEN [err |-> TRUE, vals |-> <<>>]
        ELSE [err |-> FALSE,
              vals |-> [m \in 1..Len(keys) |-> series[at(keys[m])].v]]

analyze_gsr(gsr_data, rate) ==
    IF Len(gsr_data) = 0
    THEN [err |-> FALSE, peaks |-> <<>>, amp |-> Num(0), freq |-> Num(0)]
    ELSE LET x == Values(gsr_data)
             n == Len(x)
             scr_peaks == find_peaks(x, Rat(1, 10), rate)
             k == Len(scr_peaks)
             got == getitem_by_label(gsr_data, scr_peaks)
         IN  IF got.err
             THEN [err |-> TRUE, peaks |-> scr_peaks, amp |-> Num(0), freq |-> Num(0)]
             ELSE [err |-> FALSE,
                   peaks |-> scr_peaks,
                   \* mean over the peaks of (value - mean of the segment)
                   amp |-> IF k > 0
                           THEN Rat(n * SumSeq(got.vals) - k * SumSeq(x), k * n)
                           ELSE Num(0),
                   \* len(scr_peaks) / (len(gsr_data) / sampling_rate)
                   freq |-> Rat(k * rate, n)]

-----------------------------------------------------------------------------
(* PPG features (lines 113-118) *)

rr_intervals(ppg_values) == np_diff(where_positive(np_diff(ppg_values)))

\* np.std: the population standard deviation.  Of an empty sequence it is
\* 0/0, which like the NaN it stands for is neither below nor above any number.
np_std(v) ==
    LET m == Len(v)
        sq == [k \in 1..m |-> v[k] * v[k]]
    IN  Sqrt(Rat(m * SumSeq(sq) - SumSeq(v) * SumSeq(v), m * m))

\* np.sqrt(np.mean(np.square(np.diff(v))))
rmssd_of(v) ==
    LET dd == np_diff(v)
        sq == [k \in 1..Len(dd) |-> dd[k] * dd[k]]
    IN  Sqrt(Rat(SumSeq(sq), Len(dd)))

\* lines 111-118
ppg_label(ppg_segment) ==
    IF all_null(ppg_segment) THEN NeutralCalm
    ELSE LET iv == rr_intervals(Values(ppg_segment))
         IN  IF Len(iv) > 1 THEN classify_ppg_emotion(np_std(iv), rmssd_of(iv))
             ELSE NeutralCalm

\* a faulty variant: the GSR analysis without the guard of line 121
gsr_label_unguarded(gsr_segment) ==
    LET gsr == analyze_gsr(dropna(gsr_segment), sampling_rate)
    IN  classify_gsr_emotion(gsr.amp, gsr.freq)

\* lines 120-123, when analyze_gsr returns
gsr_label(gsr_segment) ==
    IF all_null(gsr_segment) THEN NeutralCalm
    ELSE LET gsr == analyze_gsr(dropna(gsr_segment), sampling_rate)
         IN  classify_gsr_emotion(gsr.amp, gsr.freq)

-----------------------------------------------------------------------------
(* The request: the uploaded table and chunks_json.                         *)
(*   input.csv_ok      pd.read_csv can read the upload                      *)
(*   input.columns     the header of the file                               *)
(*   input.rows        the rows: [time, ppg, gsr] as read                   *)
(*   input.chunks_json [syntax_ok, is_object, has_chunks, chunks]: whether  *)
(*                     json.loads accepts the text, and the value it gives  *)

MaxRows == 5
MaxHdrRows == 3
MaxChunks == 2
MaxTimeLen == 4

AllColumns == {"time", "ppg_signal", "gsr_signal"}

T0 == Str(<<"0", ":", "0", "0", ".", "0">>)
T1 == Str(<<"0", ":", "0", "1", ".", "0">>)
TBad == Str(<<"x">>)

Row(t, p, g) == [time |-> t, ppg |-> p, gsr |-> g]

RowKinds == {Row(T0, 0, 0), Row(T0, 1, 1), Row(T0, NaN, NaN), Row(T1, 2, 0), Row(TBad, 1, 1)}

SeqsUpTo(S, n) == UNION {[1..k -> S] : k \in 0..n}

Chunk(s, e, txt) == [has_timestamp |-> TRUE, has_text |-> TRUE, timestamp |-> <<s, e>>, text |-> txt]

NoTimestamp == [has_timestamp |-> FALSE, has_text |-> TRUE, timestamp |-> <<>>, text |-> "a"]

NoText == [has_timestamp |-> TRUE, has_text |-> FALSE, timestamp |-> <<0, 1>>, text |-> ""]

ChunkKinds ==
    {Chunk(w[1], w[2], txt) : w \in {<<0, 0>>, <<0, 1>>, <<1, 1>>, <<1, 0>>}, txt \in {"a", "b"}}
        \union {NoTimestamp, NoText}

Json(chunks) == [syntax_ok |-> TRUE, is_object |-> TRUE, has_chunks |-> TRUE, chunks |-> chunks]

BadJson == [syntax_ok |-> FALSE, is_object |-> FALSE, has_chunks |-> FALSE, chunks |-> <<>>]

JsonArray == [syntax_ok |-> TRUE, is_object |-> FALSE, has_chunks |-> FALSE, chunks |-> <<>>]

JsonNoChunks == [syntax_ok |-> TRUE, is_object |-> TRUE, has_chunks |-> FALSE, chunks |-> <<>>]

Payloads == {BadJson, JsonArray, JsonNoChunks} \union {Json(c) : c \in SeqsUpTo(ChunkKinds, MaxChunks)}

Request(ok, cols, rows, payload) ==
    [csv_ok |-> ok, columns |-> cols, rows |-> rows, chunks_json |-> payload]

TimeChars == {"1", "2", ":", ".", "a", "-"}

TimeExamples ==
    {Str(<<"1", ":", "3", "0", ".", "0", "4", "5">>), Str(<<"a", "b", "c">>),
     Str(<<"1", "-", "3", "0">>), Str(<<"1", ":", "3", "0">>),
     Str(<<"-", "1", ":", "3", "0", ".", "0">>), Str(<<"1", ":", "3", "0", ".", "0", ".", "5">>),
     Str(<<"1", ":", "2", ":", "3", ".", "0">>), Str(<<"1", ".", "5", ":", "3", ".", "0">>),
     [t |-> "int", s |-> <<>>], [t |-> "float", s |-> <<>>]}

TimeCells == {Str(c) : c \in SeqsUpTo(TimeChars, MaxTimeLen)} \union TimeExamples

WideWindow == Json(<<Chunk(-100000, 100000, "a")>>)

\* whole tables, every column present, two window lists
TableRequests ==
    {Request(TRUE, AllColumns, rows, payload) :
        rows \in SeqsUpTo(RowKinds, MaxRows),
        payload \in {Json(<<Chunk(0, 1, "a")>>), Json(<<Chunk(1, 1, "a"), Chunk(0, 0, "b")>>)}}

\* every header, short tables
HeaderRequests ==
    {Request(TRUE, cols, rows, Json(<<Chunk(0, 1, "a")>>)) :
        cols \in SUBSET AllColumns, rows \in SeqsUpTo(RowKinds, MaxHdrRows)}

\* every payload, readable and unreadable uploads
PayloadRequests ==
    {Request(ok, AllColumns, rows, payload) :
        ok \in BOOLEAN,
        rows \in {<<>>, <<Row(T0, 0, 0), Row(T0, 1, 1), Row(T0, 0, 0), Row(T1, 2, 0)>>},
        payload \in Payloads}

\* every time cell, in the first row of a table of two rows
TimeRequests ==
    {Request(TRUE, AllColumns, <<Row(c, 1, 0), Row(T1, 2, 0)>>, WideWindow) : c \in TimeCells}

\* direct calls: the arguments lie around the thresholds
GridRadius == 2

Around(thresholds) == {t + d : t \in thresholds, d \in (0 - GridRadius)..GridRadius}

\* (sdnn, rmssd)
PpgCalls ==
    [fn : {"classify_ppg_emotion"},
     a : Around({50, 100}) \union {0, 75, 150},
     b : Around({30, 50}) \union {0, 40, 80}]

\* (amplitude, frequency), in hundredths
GsrCalls ==
    [fn : {"classify_gsr_emotion"},
     a : Around({30, 50}) \union {-10, 0, 40, 60, 100},
     b : Around({2, 5}) \union {0, 6, 100}]

FusionCalls == [fn : {"combine_emotions"}, a : Labels, b : Labels]

Requests == TableRequests \union HeaderRequests \union PayloadRequests \union TimeRequests

-----------------------------------------------------------------------------
(* analyze_sensors *)

NoResponse == [status |-> 0, result |-> <<>>]

HTTPException(code) == [status |-> code, result |-> <<>>]

Ok(res) == [status |-> 200, result |-> res]

\* lines 78-93: the frame read from the upload, its time column converted,
\* the rows without a time dropped, the missing signal columns filled with NaN
LoadedFrame(inp) ==
    LET raw == [k \in 1..Len(inp.rows) |->
                   [idx |-> k - 1,
                    time |-> convert_time_to_seconds(
                                 IF "time" \in inp.columns THEN inp.rows[k].time
                                 ELSE [t |-> "int", s |-> <<>>]),
                    ppg |-> IF "ppg_signal" \in inp.columns THEN inp.rows[k].ppg ELSE NaN,
                    gsr |-> IF "gsr_signal" \in inp.columns THEN inp.rows[k].gsr ELSE NaN]]
        kept == SelectSeq(raw, LAMBDA r : ~r.time.none)
    IN  [raised |-> \E k \in 1..Len(raw) : raw[k].time.exc # "",
         frame |-> [k \in 1..Len(kept) |->
                      [idx |-> kept[k].idx, time |-> kept[k].time.secs,
                       ppg |-> kept[k].ppg, gsr |-> kept[k].gsr]]]

InWindow(frame, start_time, end_time) ==
    SelectSeq(frame, LAMBDA r : r.time >= start_time /\ r.time <= end_time)

\* df.loc[(df['time'] >= start_time) & (df['time'] <= end_time), 'ppg_signal']
PpgSegment(frame, start_time, end_time) ==
    LET w == InWindow(frame, start_time, end_time)
    IN  [k \in 1..Len(w) |-> [idx |-> w[k].idx, v |-> w[k].ppg]]

\* df.loc[(df['time'] >= start_time) & (df['time'] <= end_time), 'gsr_signal']
GsrSegment(frame, start_time, end_time) ==
    LET w == InWindow(frame, start_time, end_time)
    IN  [k \in 1..Len(w) |-> [idx |-> w[k].idx, v |-> w[k].gsr]]

NoChunk == [has_timestamp |-> FALSE, has_text |-> FALSE, timestamp |-> <<>>, text |-> ""]

NoCall == [fn |-> "", a |-> 0, b |-> 0]

Pending == "pending"

\* the handler's variables before a request is handled
Fresh ==
    /\ df = <<>>
    /\ chunks_data = BadJson
    /\ chunk = NoChunk
    /\ results = <<>>
    /\ ppg_rr_intervals = <<>>
    /\ ppg_emotion = ""
    /\ gsr_emotion = ""
    /\ scr = <<Num(0), Num(0)>>
    /\ response = NoResponse

\* a request to the endpoint
InitRequest ==
    /\ input \in Requests
    /\ pc = "read"
    /\ Fresh
    /\ call = NoCall
    /\ ret = ""

\* a direct call of a classifier or of the fusion rule
InitCall ==
    /\ \/ call \in PpgCalls
       \/ call \in GsrCalls
       \/ call \in FusionCalls
    /\ ret = Pending
    /\ input = Request(FALSE, {}, <<>>, BadJson)
    /\ pc = "call"
    /\ Fresh

Init == InitRequest \/ InitCall

\* lines 78-93
ReadTable ==
    /\ pc = "read"
    /\ IF input.csv_ok /\ ~LoadedFrame(input).raised
       THEN /\ df' = LoadedFrame(input).frame
            /\ pc' = "parse"
            /\ UNCHANGED response
       ELSE /\ response' = HTTPException(500)           \* except Exception
            /\ pc' = "done"
            /\ UNCHANGED df
    /\ UNCHANGED <<input, chunks_data, chunk, results, ppg_rr_intervals, ppg_emotion,
                   gsr_emotion, scr, call, ret>>

\* lines 95-101: json.loads, then chunks_data["chunks"] as the loop starts
ParseChunks ==
    /\ pc = "parse"
    /\ IF ~input.chunks_json.syntax_ok
       THEN /\ response' = HTTPException(400)           \* json.JSONDecodeError
            /\ pc' = "done"
            /\ UNCHANGED chunks_data
       ELSE /\ chunks_data' = input.chunks_json
            /\ IF input.chunks_json.is_object /\ input.chunks_json.has_chunks
               THEN pc' = "loop" /\ UNCHANGED response
               ELSE pc' = "done" /\ response' = HTTPException(500)  \* TypeError, KeyError
    /\ UNCHANGED <<input, df, chunk, results, ppg_rr_intervals, ppg_emotion,
                   gsr_emotion, scr, call, ret>>

\* lines 101-131: one iteration of the loop
ProcessChunk ==
    /\ pc = "loop"
    /\ Len(results) < Len(chunks_data.chunks)
    /\ chunk' = chunks_data.chunks[Len(results) + 1]
    /\ LET c == chunks_data.chunks[Len(results) + 1]
       IN  IF ~c.has_timestamp \/ ~c.has_text
           THEN /\ response' = HTTPException(500)       \* KeyError
                /\ pc' = "done"
                /\ UNCHANGED <<results, ppg_rr_intervals, ppg_emotion, gsr_emotion, scr>>
           ELSE LET start_time == c.timestamp[1]
                    end_time == c.timestamp[2]
                    ppg_segment == PpgSegment(df, start_time, end_time)
                    gsr_segment == GsrSegment(df, start_time, end_time)
                    gsr == analyze_gsr(dropna(gsr_segment), sampling_rate)
                    gsr_failed == ~all_null(gsr_segment) /\ gsr.err
                IN  /\ ppg_emotion' = ppg_label(ppg_segment)
                    /\ ppg_rr_intervals' =
                           IF all_null(ppg_segment) THEN ppg_rr_intervals
                           ELSE rr_intervals(Values(ppg_segment))
                    /\ IF gsr_failed
                       THEN /\ gsr_emotion' = NeutralCalm   \* line 120, then KeyError
                            /\ response' = HTTPException(500)
                            /\ pc' = "done"
                            /\ UNCHANGED <<results, scr>>
                       ELSE /\ gsr_emotion' = gsr_label(gsr_segment)
                            /\ scr' = IF all_null(gsr_segment) THEN scr
                                      ELSE <<gsr.amp, gsr.freq>>
                            /\ results' = Append(results,
                                   [timestamp |-> <<c.timestamp[1], c.timestamp[2]>>,
                                    text |-> c.text,
                                    emotion |-> combine_emotions(ppg_label(ppg_segment),
                                                                 gsr_label(gsr_segment))])
                            /\ UNCHANGED <<pc, response>>
    /\ UNCHANGED <<input, df, chunks_data, call, ret>>

\* line 133
Return ==
    /\ pc = "loop"
    /\ Len(results) = Len(chunks_data.chunks)
    /\ response' = Ok(results)
    /\ pc' = "done"
    /\ UNCHANGED <<input, df, chunks_data, chunk, results, ppg_rr_intervals, ppg_emotion,
                   gsr_emotion, scr, call, ret>>

CallClassifyPpg ==
    /\ pc = "call"
    /\ call.fn = "classify_ppg_emotion"
    /\ ret = Pending
    /\ ret' = classify_ppg_emotion(Num(call.a), Num(call.b))
    /\ UNCHANGED <<handlerVars, call>>

CallClassifyGsr ==
    /\ pc = "call"
    /\ call.fn = "classify_gsr_emotion"
    /\ ret = Pending
    /\ ret' = classify_gsr_emotion(Rat(call.a, 100), Rat(call.b, 100))
    /\ UNCHANGED <<handlerVars, call>>

CallCombine ==
    /\ pc = "call"
    /\ call.fn = "combine_emotions"
    /\ ret = Pending
    /\ ret' = combine_emotions(call.a, call.b)
    /\ UNCHANGED <<handlerVars, call>>

Next ==
    \/ ReadTable
    \/ ParseChunks
    \/ ProcessChunk
    \/ Return
    \/ CallClassifyPpg
    \/ CallClassifyGsr
    \/ CallCombine

Spec == Init /\ [][Next]_vars

-----------------------------------------------------------------------------
(* Properties.  What the properties say of a window is said of the window   *)
(* the loop handled last: chunk, and the locals of that iteration.          *)

\* the loop variable is bound to a well-formed chunk, so lines 102-118 ran for it
LastChunkRan == pc \in {"loop", "done"} /\ chunk.has_timestamp /\ chunk.has_text

\* ... and the iteration reached line 127
LastChunkAppended == LastChunkRan /\ response.status # 500

LastResult == results[Len(results)]

\* the rows of the frame whose time lies in the window of chunk
WindowRows ==
    SelectSeq(df, LAMBDA r : r.time >= chunk.timestamp[1] /\ r.time <= chunk.timestamp[2])

WindowPpg == [k \in 1..Len(WindowRows) |-> WindowRows[k].ppg]

WindowGsr == [k \in 1..Len(WindowRows) |-> WindowRows[k].gsr]

Present(x) == SelectSeq(x, LAMBDA v : v # NaN)

WellFormed(payload) ==
    /\ payload.syntax_ok
    /\ payload.is_object
    /\ payload.has_chunks
    /\ \A k \in 1..Len(payload.chunks) :
           payload.chunks[k].has_timestamp /\ payload.chunks[k].has_text

\* C1: for any list of windows, analyze_sensors returns a list of the same
\* length whose i-th record carries the i-th window's timestamp pair and text
\* and one emotion label.
C1_OneRecordPerWindow ==
    (pc = "done" /\ input.csv_ok /\ WellFormed(input.chunks_json)) =>
        /\ response.status = 200
        /\ Len(response.result) = Len(input.chunks_json.chunks)
        /\ \A k \in 1..Len(response.result) :
               /\ response.result[k].timestamp = input.chunks_json.chunks[k].timestamp
               /\ response.result[k].text = input.chunks_json.chunks[k].text
               /\ response.result[k].emotion \in Labels

\* C2: combine_emotions returns "Happy/Angry" whenever the GSR label is
\* "Happy/Angry" and the PPG label otherwise; so a window's final label is
\* "Happy/Angry" exactly when its GSR label is, and the GSR labels Sad, Neutral
\* and Neutral/Calm leave the PPG label as the final label.
C2_Fusion ==
    /\ (call.fn = "combine_emotions" /\ ret # Pending) =>
           /\ call.b = HappyAngry => ret = HappyAngry
           /\ call.b # HappyAngry => ret = call.a
           /\ call.a # HappyAngry => (ret = HappyAngry <=> call.b = HappyAngry)
    /\ LastChunkAppended =>
           /\ LastResult.emotion = HappyAngry <=> gsr_emotion = HappyAngry
           /\ gsr_emotion \in {Sad, Neutral, NeutralCalm} => LastResult.emotion = ppg_emotion

C2_Witness ==
    /\ LastChunkAppended
    /\ ppg_emotion = Sad
    /\ gsr_emotion = HappyAngry
    /\ LastResult.emotion = HappyAngry

\* the rule table of the PPG classifier, on integers
PpgRule(sdnn, rmssd) ==
    CASE sdnn > 100 /\ rmssd > 50 -> Happy
      [] ~(sdnn > 100 /\ rmssd > 50) /\ sdnn < 50 /\ rmssd < 30 -> Sad
      [] ~(sdnn > 100 /\ rmssd > 50) /\ ~(sdnn < 50 /\ rmssd < 30)
            /\ sdnn > 100 /\ rmssd < 30 -> Angry
      [] sdnn \in 50..100 /\ rmssd \in 30..50 -> Neutral
      [] OTHER -> NeutralCalm

\* C3: classify_ppg_emotion returns the label of the first matching rule of
\* the table, always one of the five PPG labels and never "Happy/Angry".
C3_PpgRuleTable ==
    /\ (call.fn = "classify_ppg_emotion" /\ ret # Pending) =>
           /\ ret = PpgRule(call.a, call.b)
           /\ ret \in {Happy, Sad, Angry, Neutral, NeutralCalm}
    /\ LastChunkRan => ppg_emotion \in {Happy, Sad, Angry, Neutral, NeutralCalm}

C3_Witness ==
    /\ call.fn = "classify_ppg_emotion"
    /\ call.a = 101
    /\ call.b = 29
    /\ ret = Angry

PpgCallReturned(sdnn, rmssd) ==
    call.fn = "classify_ppg_emotion" /\ call.a = sdnn /\ call.b = rmssd /\ ret # Pending

\* C4 as stated: at the corners (100, 50), (50, 30), (100, 30), (75, 40) the
\* PPG classifier returns Neutral/Calm, Neutral, Angry, Neutral.
C4_CornersAsStated ==
    /\ PpgCallReturned(100, 50) => ret = NeutralCalm
    /\ PpgCallReturned(50, 30) => ret = Neutral
    /\ PpgCallReturned(100, 30) => ret = Angry
    /\ PpgCallReturned(75, 40) => ret = Neutral

\* C4 amended: at the corners (100, 50), (50, 30), (100, 30), (75, 40) the PPG
\* classifier returns Neutral: each lies inside the inclusive Neutral rule and
\* none satisfies a strict rule before it.
C4_CornersAreNeutral ==
    /\ PpgCallReturned(100, 50) => ret = Neutral
    /\ PpgCallReturned(50, 30) => ret = Neutral
    /\ PpgCallReturned(100, 30) => ret = Neutral
    /\ PpgCallReturned(75, 40) => ret = Neutral

C4_Witness == PpgCallReturned(100, 30) /\ ret = Neutral

\* the rule table of the GSR classifier, on hundredths
GsrRule(amplitude, frequency) ==
    CASE amplitude > 50 /\ frequency > 5 -> HappyAngry
      [] ~(amplitude > 50 /\ frequency > 5) /\ amplitude < 30 /\ frequency < 2 -> Sad
      [] amplitude \in 30..50 /\ frequency \in 2..5 -> Neutral
      [] OTHER -> NeutralCalm

\* C5: classify_gsr_emotion returns the label of the first matching rule of
\* the table; (0, 0) is Sad; the result is never Happy or Angry.
C5_GsrRuleTable ==
    /\ (call.fn = "classify_gsr_emotion" /\ ret # Pending) =>
           /\ ret = GsrRule(call.a, call.b)
           /\ ret \in {HappyAngry, Sad, Neutral, NeutralCalm}
           /\ (call.a = 0 /\ call.b = 0) => ret = Sad
    /\ LastChunkRan => gsr_emotion \in {HappyAngry, Sad, Neutral, NeutralCalm}

C5_Witness ==
    /\ call.fn = "classify_gsr_emotion"
    /\ call.a = 0
    /\ call.b = 0
    /\ ret = Sad

\* the positions of the window where a present reading is followed by a higher one
RisingEdges(x) ==
    {k \in 1..(Len(x) - 1) : x[k] # NaN /\ x[k + 1] # NaN /\ x[k + 1] > x[k]}

\* no usable PPG data: no column, no present reading, or fewer than 2
\* intervals between rising edges (fewer than 3 rising edges)
PpgNoData ==
    \/ "ppg_signal" \notin input.columns
    \/ Present(WindowPpg) = <<>>
    \/ Cardinality(RisingEdges(WindowPpg)) < 3

GsrNoData ==
    \/ "gsr_signal" \notin input.columns
    \/ Present(WindowGsr) = <<>>

\* C6: a channel without usable data in the window gets the label
\* Neutral/Calm and causes no error; the other channel's label is still
\* fused with it, so the final label is "Happy/Angry" when the GSR label is.
C6_SilentDefaults ==
    LastChunkRan =>
        /\ PpgNoData => ppg_emotion = NeutralCalm
        /\ GsrNoData => (gsr_emotion = NeutralCalm /\ LastChunkAppended)
        /\ (PpgNoData /\ LastChunkAppended) =>
               LastResult.emotion =
                   IF gsr_emotion = HappyAngry THEN HappyAngry ELSE NeutralCalm
        /\ (GsrNoData /\ LastChunkAppended) => LastResult.emotion = ppg_emotion

C6_Witness ==
    /\ pc = "done"
    /\ input.columns = {"time", "gsr_signal"}
    /\ response.status = 200
    /\ Len(response.result) = 1
    /\ ppg_emotion = NeutralCalm
    /\ gsr_emotion = HappyAngry
    /\ response.result[1].emotion = HappyAngry

\* the time format, read off the text
CountChar(s, c) == Cardinality({k \in 1..Len(s) : s[k] = c})

PosOf(s, c) == CHOOSE k \in 1..Len(s) : s[k] = c

DecimalDigits == {"0", "1", "2", "3", "4", "5", "6", "7", "8", "9"}

Unsigned(s) == IF s # <<>> /\ s[1] \in {"-", "+"} THEN Tail(s) ELSE s

IsIntegerText(s) ==
    /\ Unsigned(s) # <<>>
    /\ \A k \in 1..Len(Unsigned(s)) : Unsigned(s)[k] \in DecimalDigits

DigitOf(c) ==
    CASE c = "0" -> 0 [] c = "1" -> 1 [] c = "2" -> 2 [] c = "3" -> 3 [] c = "4" -> 4
      [] c = "5" -> 5 [] c = "6" -> 6 [] c = "7" -> 7 [] c = "8" -> 8 [] c = "9" -> 9

RECURSIVE Magnitude(_)
Magnitude(s) ==
    IF s = <<>> THEN 0 ELSE 10 * Magnitude(SubSeq(s, 1, Len(s) - 1)) + DigitOf(s[Len(s)])

IntegerOf(s) ==
    IF s[1] = "-" THEN 0 - Magnitude(Unsigned(s)) ELSE Magnitude(Unsigned(s))

MinutesText(s) == SubSeq(s, 1, PosOf(s, ":") - 1)

AfterColon(s) == SubSeq(s, PosOf(s, ":") + 1, Len(s))

SecondsText(s) == SubSeq(AfterColon(s), 1, PosOf(AfterColon(s), ".") - 1)

\* "<minutes>:<seconds>.<sample-index>" with integer minutes and seconds
IsTimeForm(cell) ==
    /\ cell.t = "str"
    /\ CountChar(cell.s, ":") = 1
    /\ CountChar(AfterColon(cell.s), ".") = 1
    /\ IsIntegerText(MinutesText(cell.s))
    /\ IsIntegerText(SecondsText(cell.s))

\* the time cell of row k as line 84 sees it (the index where the column is missing)
RawTime(k) ==
    IF "time" \in input.columns THEN input.rows[k].time ELSE [t |-> "int", s |-> <<>>]

\* the handler failed in lines 78-93
LoadRaised == pc = "done" /\ response.status = 500 /\ chunks_data = BadJson

\* C7: convert_time_to_seconds never raises; a cell of the time format gives
\* minutes*60 + seconds, any other cell gives None, and the rows whose time is
\* None are not in the frame the windows are sliced from.
C7_TimeParsing ==
    (input.csv_ok /\ pc \in {"parse", "loop", "done"}) =>
        /\ ~LoadRaised
        /\ \A k \in 1..Len(input.rows) :
               LET kept == {j \in 1..Len(df) : df[j].idx = k - 1}
               IN  IF IsTimeForm(RawTime(k))
                   THEN /\ Cardinality(kept) = 1
                        /\ \A j \in kept :
                               df[j].time = 60 * IntegerOf(MinutesText(RawTime(k).s))
                                            + IntegerOf(SecondsText(RawTime(k).s))
                   ELSE kept = {}

C7_Witness ==
    /\ pc = "done"
    /\ response.status = 200
    /\ Len(input.rows) = 2
    /\ input.rows[1].time = Str(<<"1", ":", "3", "0", ".", "0", "4", "5">>)
    /\ Len(df) = 2
    /\ df[1].time = 90

\* C8: a windows payload that is not parseable as the expected structure
\* always ends in the bad-request error (400), never in the generic error
\* (stated here for the requests whose upload can be read).
C8_MalformedPayloadIs400 ==
    (pc = "done" /\ input.csv_ok /\ ~WellFormed(input.chunks_json)) => response.status = 400

\* the features of a segment of present readings, peaks read by position
GsrFeatures(x) ==
    LET peaks == find_peaks(x, Rat(1, 10), sampling_rate)
        k == Len(peaks)
        n == Len(x)
        heights == [m \in 1..k |-> x[peaks[m] + 1]]
    IN  <<IF k = 0 THEN Num(0) ELSE Rat(n * SumSeq(heights) - k * SumSeq(x), k * n),
          Rat(k * sampling_rate, n)>>

\* C9: for every non-empty GSR segment the pipeline hands to analyze_gsr,
\* analyze_gsr does not fail and returns the mean over the peak positions of
\* (value at the position - mean of the segment), and peaks per second.
C9_GsrFeatures ==
    (LastChunkRan /\ Present(WindowGsr) # <<>>) =>
        /\ response.status # 500
        /\ scr = GsrFeatures(Present(WindowGsr))

\* C10: where the PPG readings of a window are partly absent, the intervals
\* and the label are those of the present readings taken in table order
\* (stated here for the windows whose record is appended).
C10_AbsentReadingsExcluded ==
    (LastChunkAppended /\ Present(WindowPpg) # <<>> /\ Present(WindowPpg) # WindowPpg) =>
        LET iv == rr_intervals(Present(WindowPpg))
        IN  /\ ppg_rr_intervals = iv
            /\ ppg_emotion = IF Len(iv) > 1
                             THEN classify_ppg_emotion(np_std(iv), rmssd_of(iv))
                             ELSE NeutralCalm

====
